---- MODULE Spec2Model ----
(***************************************************************************)
(* Product controller of store_api (src/store/controllers/product.py) and  *)
(* the response cache it uses (store.core.cache: cache_response and        *)
(* invalidate_cache).  The controller is translated from its source; the   *)
(* cache module and the use cases are modelled from the design document    *)
(* (sections 4.1 to 4.4 and 6).                                            *)
(*                                                                         *)
(* Strings that end up in cache keys are sequences of one-character        *)
(* strings, so that "starts with" and escaping are computed, not assumed.  *)
(***************************************************************************)
EXTENDS Integers, Sequences, FiniteSets, TLC

VARIABLES now, db, dbVer, cache, invVer, listInvVer, req, probe

vars == <<now, db, dbVer, cache, invVer, listInvVer, req, probe>>

(***************************************************************************)
(* Bounds of the model.                                                    *)
(***************************************************************************)
NumReqs == 2
MaxWrites == 1
MaxTime == 300
MaxProbes == 2

Reqs == 1 .. NumReqs

\* Product ids (UUIDs in the program: fixed length, hexadecimal and "-").
\* ProductIds are the products the requests address; OtherId is a further
\* product, used where the store is exercised on its own.
ProductIds == { <<"u", "1">> }
OtherId == <<"u", "2">>

\* Amounts by which the clock advances between two steps.
TickSteps == {150}

(***************************************************************************)
(* Program constants of the controller.                                    *)
(***************************************************************************)
\* @cache_response(key_prefix="products:list", expire=60)
ListProductsPrefix == <<"p", "r", "o", "d", "u", "c", "t", "s", ":", "l", "i", "s", "t">>
ListProductsExpire == 60

\* @cache_response(key_prefix="product", expire=300)
GetProductPrefix == <<"p", "r", "o", "d", "u", "c", "t">>
GetProductExpireAsList == ListProductsExpire
GetProductExpire == 300

\* HTTP status codes used by the handlers.
HTTP_200_OK == 200
HTTP_201_CREATED == 201
HTTP_204_NO_CONTENT == 204
HTTP_400_BAD_REQUEST == 400
HTTP_404_NOT_FOUND == 404
HTTP_500_INTERNAL_SERVER_ERROR == 500

\* PaginationParams defaults (page 1, size 20).
DefaultPage == 1
DefaultSize == 20

(***************************************************************************)
(* Optional values: None is the empty tuple, Some(v) a one-element tuple.  *)
(***************************************************************************)
None == << >>
Some(v) == <<v>>

\* Values of the category filter offered to list_products; OtherCategory is
\* a further value, used where the store is exercised on its own.
Categories == { None }
OtherCategory == Some(<<"a", "&">>)

(***************************************************************************)
(* Key Composer (design 4.2).                                              *)
(***************************************************************************)
IsPrefixOf(p, s) == /\ Len(p) <= Len(s)
                    /\ SubSeq(s, 1, Len(p)) = p

\* Percent-style escaping of the separator and the delimiters.
EscapeChar(c) ==
    CASE c = "%" -> <<"%", "2", "5">>
      [] c = "&" -> <<"%", "2", "6">>
      [] c = "=" -> <<"%", "3", "D">>
      [] c = ":" -> <<"%", "3", "A">>
      [] OTHER   -> <<c>>

RECURSIVE escape(_)
escape(s) == IF s = << >> THEN << >>
             ELSE EscapeChar(Head(s)) \o escape(Tail(s))

Digit(d) == CASE d = 0 -> "0" [] d = 1 -> "1" [] d = 2 -> "2" [] d = 3 -> "3"
              [] d = 4 -> "4" [] d = 5 -> "5" [] d = 6 -> "6" [] d = 7 -> "7"
              [] d = 8 -> "8" [] d = 9 -> "9"

RECURSIVE NatToStr(_)
NatToStr(n) == IF n < 10 THEN <<Digit(n)>>
               ELSE NatToStr(n \div 10) \o <<Digit(n % 10)>>

\* Characters of a parameter name.
NameChars(n) ==
    CASE n = "category" -> <<"c", "a", "t", "e", "g", "o", "r", "y">>
      [] n = "id"       -> <<"i", "d">>
      [] n = "in_stock" -> <<"i", "n", "_", "s", "t", "o", "c", "k">>
      [] n = "max_price" -> <<"m", "a", "x", "_", "p", "r", "i", "c", "e">>
      [] n = "min_price" -> <<"m", "i", "n", "_", "p", "r", "i", "c", "e">>
      [] n = "page"     -> <<"p", "a", "g", "e">>
      [] n = "size"     -> <<"s", "i", "z", "e">>

\* The parameter names in ascending order.
SortedNames == <<"category", "id", "in_stock", "max_price", "min_price", "page", "size">>

\* name=escape(value) for the supplied parameters, in name order, joined by "&".
RECURSIVE JoinPairs(_, _)
JoinPairs(params, i) ==
    IF i > Len(SortedNames) THEN << >>
    ELSE LET n    == SortedNames[i]
             rest == JoinPairs(params, i + 1)
         IN  IF n \in DOMAIN params /\ params[n] # None
             THEN LET pair == NameChars(n) \o <<"=">> \o escape(params[n][1])
                  IN  IF rest = << >> THEN pair ELSE pair \o <<"&">> \o rest
             ELSE rest

compose(prefix, params) == prefix \o <<":">> \o JoinPairs(params, 1)

\* The request-distinguishing parameters of the two cached handlers.
GetProductParams(id) == [n \in {"id"} |-> Some(id)]

ListProductsParams(category, page, size) ==
    [n \in {"category", "min_price", "max_price", "in_stock", "page", "size"} |->
        CASE n = "category" -> category
          [] n = "page"     -> Some(NatToStr(page))
          [] n = "size"     -> Some(NatToStr(size))
          [] OTHER          -> None]

\* f"product:{id}" of update_product and delete_product.
ProductPattern(id) == <<"p", "r", "o", "d", "u", "c", "t", ":">> \o id

\* "products:list" of the three mutating handlers.
ListPattern == <<"p", "r", "o", "d", "u", "c", "t", "s", ":", "l", "i", "s", "t">>

(***************************************************************************)
(* Cache Store (design 4.1).  An entry carries its value and expiry; setAt *)
(* and late are history fields (when it was set; whether a newer write's   *)
(* invalidation had already run when it was set).                          *)
(***************************************************************************)
Entry(v, exp, at, late) == [value |-> v, expires_at |-> exp, setAt |-> at, late |-> late]

Found(c, key, t) == key \in DOMAIN c /\ t < c[key].expires_at

\* get(key): the value, or None when absent or expired.
StoreGet(c, key, t) == IF Found(c, key, t) THEN Some(c[key].value) ELSE None

\* set(key, value, ttl): insert or overwrite, expires_at = now + ttl.
StoreSet(c, key, v, ttl, t, late) ==
    [k \in DOMAIN c \cup {key} |->
        IF k = key THEN Entry(v, t + ttl, t, late) ELSE c[k]]

\* delete(key): remove the entry if present.
StoreDelete(c, key) == [k \in DOMAIN c \ {key} |-> c[k]]

\* delete_by_prefix(prefix): remove every entry whose key starts with prefix.
StoreDeleteByPrefixAll(c, prefix) == [k \in {} |-> c[k]]
StoreDeleteByPrefix(c, prefix) ==
    [k \in {x \in DOMAIN c : ~IsPrefixOf(prefix, x)} |-> c[k]]

(***************************************************************************)
(* Invalidator (design 4.4).  Prefix patterns are the prefixes of the      *)
(* collection endpoints; any other pattern is an exact key.  A fault of    *)
(* the store is logged and ignored: the call returns normally.             *)
(***************************************************************************)
PrefixPatterns == { ListProductsPrefix }

InvalidateCacheRaising(c, pattern, fault) ==
    IF fault THEN [cache |-> c, raised |-> TRUE]
    ELSE IF pattern \in PrefixPatterns
         THEN [cache |-> StoreDeleteByPrefix(c, pattern), raised |-> FALSE]
         ELSE [cache |-> StoreDelete(c, pattern), raised |-> FALSE]

InvalidateCache(c, pattern, fault) ==
    IF fault THEN [cache |-> c, raised |-> FALSE]
    ELSE IF pattern \in PrefixPatterns
         THEN [cache |-> StoreDeleteByPrefix(c, pattern), raised |-> FALSE]
         ELSE [cache |-> StoreDelete(c, pattern), raised |-> FALSE]

(***************************************************************************)
(* Resource operations (ProductUsecase, design section 6).  The product    *)
(* store maps each id to whether the product exists and to the stamp of    *)
(* the last write to it; dbVer stamps the writes.  A result is represented *)
(* by the stamp of the data it was computed from.                          *)
(***************************************************************************)
Ok(v) == [ok |-> TRUE, val |-> v, exc |-> "none"]
Raise(e) == [ok |-> FALSE, val |-> -1, exc |-> e]

\* get(id) -> entity | NotFoundError, or a generic fault.
UsecaseGet(d, id) ==
    (IF d[id].present THEN {Ok(d[id].ver)} ELSE {Raise("NotFoundException")})
        \cup {Raise("Exception")}

\* query(filters, page, size) -> page of items, or a generic fault.
UsecaseQuery(v) == {Ok(v), Raise("Exception")}

\* create(input) -> entity | ValidationError, or a generic fault.
UsecaseCreate(d, v) ==
    (IF v < MaxWrites THEN {Ok(v + 1)} ELSE {})
        \cup {Raise("ValidationException"), Raise("Exception")}

\* update(id, partial_input) -> entity | NotFoundError | ValidationError.
UsecaseUpdate(d, v, id) ==
    (IF ~d[id].present THEN {Raise("NotFoundException")}
     ELSE IF v < MaxWrites THEN {Ok(v + 1)} ELSE {})
        \cup {Raise("ValidationException"), Raise("Exception")}

\* delete(id) -> () | NotFoundError.
UsecaseDelete(d, v, id) ==
    (IF ~d[id].present THEN {Raise("NotFoundException")}
     ELSE IF v < MaxWrites THEN {Ok(v + 1)} ELSE {})
        \cup {Raise("Exception")}

(***************************************************************************)
(* The except clauses of the handlers: exception raised in the try block   *)
(* to the status of the HTTPException the handler raises.  HTTPException   *)
(* is an Exception, so one raised inside a try block is caught by the      *)
(* handler's own "except Exception".                                       *)
(***************************************************************************)
CreateExcept(e) ==
    IF e = "ValidationException" THEN HTTP_400_BAD_REQUEST
    ELSE HTTP_500_INTERNAL_SERVER_ERROR

GetExcept(e) ==
    IF e = "NotFoundException" THEN HTTP_404_NOT_FOUND
    ELSE HTTP_500_INTERNAL_SERVER_ERROR

ListExcept(e) == HTTP_500_INTERNAL_SERVER_ERROR

UpdateExcept(e) ==
    IF e = "NotFoundException" THEN HTTP_404_NOT_FOUND
    ELSE IF e = "ValidationException" THEN HTTP_400_BAD_REQUEST
    ELSE HTTP_500_INTERNAL_SERVER_ERROR

DeleteExcept(e) ==
    IF e = "NotFoundException" THEN HTTP_404_NOT_FOUND
    ELSE HTTP_500_INTERNAL_SERVER_ERROR

(***************************************************************************)
(* Requests.  Each request slot runs one handler call at a time; its pc is *)
(* the await it is suspended at.  calls is the sequence of calls the       *)
(* handler has made; the other fields past resp record what the request    *)
(* observed.                                                               *)
(***************************************************************************)
IdleReq ==
    [op |-> "none", id |-> << >>, cat |-> None, empty |-> FALSE, pc |-> "idle",
     status |-> 0, resp |-> -1, calls |-> << >>, wver |-> 0, wrapped |-> -1,
     solo |-> FALSE, cacheFault |-> FALSE]

ReadOps == {"get", "list"}
WriteOps == {"create", "update", "delete"}

UsecaseCall == <<"usecase", << >> >>
InvalidateCall(pattern) == <<"invalidate", pattern>>

\* The cache key of a cached handler call.
KeyOf(q) ==
    IF q.op = "get" THEN compose(GetProductPrefix, GetProductParams(q.id))
    ELSE compose(ListProductsPrefix, ListProductsParams(q.cat, DefaultPage, DefaultSize))

ExpireOf(q) == IF q.op = "get" THEN GetProductExpire ELSE ListProductsExpire

\* The newest write whose invalidation covering this read has run.
InvalidatedVer(q) == IF q.op = "get" THEN invVer[q.id] ELSE listInvVer

\* What the last operation applied directly to the store did (StoreSpec).
NoProbe == [n |-> 0, op |-> "none", key |-> << >>, fault |-> FALSE,
            before |-> [k \in {} |-> Entry(0, 0, 0, FALSE)], res |-> None]

Init ==
    /\ now = 0
    /\ db = [i \in ProductIds |-> [present |-> TRUE, ver |-> 0]]
    /\ dbVer = 0
    /\ cache = [k \in {} |-> Entry(0, 0, 0, FALSE)]
    /\ invVer = [i \in ProductIds |-> 0]
    /\ listInvVer = 0
    /\ req = [r \in Reqs |-> IdleReq]
    /\ probe = NoProbe

\* A request arrives and its handler is entered.
Start(r) ==
    /\ req[r].pc = "idle"
    /\ \E op \in ReadOps \cup WriteOps, id \in ProductIds, cat \in Categories,
          empty \in BOOLEAN :
          /\ op \in {"list", "create"} => id = CHOOSE i \in ProductIds : TRUE
          /\ op # "list" => cat = None
          /\ op # "update" => empty = FALSE
          /\ req' = [x \in Reqs |->
                       IF x = r
                       THEN [IdleReq EXCEPT
                               !.op = op,
                               !.id = IF op \in {"list", "create"} THEN << >> ELSE id,
                               !.cat = cat, !.empty = empty,
                               !.pc = IF op \in ReadOps THEN "lookup" ELSE "uc",
                               !.solo = /\ op \in WriteOps
                                        /\ \A o \in Reqs \ {r} :
                                              req[o].pc \in {"idle", "done"}]
                       ELSE [req[x] EXCEPT !.solo = FALSE]]
    /\ UNCHANGED <<now, db, dbVer, cache, invVer, listInvVer, probe>>

(***************************************************************************)
(* cache_response (design 4.3) around get_product and list_products.       *)
(***************************************************************************)
\* Steps 1 and 2: compose the key and look it up; a hit is returned at once.
Lookup(r) ==
    LET q   == req[r]
        key == KeyOf(q)
        v   == StoreGet(cache, key, now)
    IN  /\ q.pc = "lookup"
        /\ req' = [req EXCEPT ![r] =
                     IF v # None
                     THEN [q EXCEPT !.pc = "done", !.status = HTTP_200_OK, !.resp = v[1]]
                     ELSE [q EXCEPT !.pc = "call"]]
        /\ UNCHANGED <<now, db, dbVer, cache, invVer, listInvVer, probe>>

\* The body of get_product: the use case's result, or its exception mapped.
GetProductBodyLenient(o) ==
    IF o.ok THEN o ELSE Ok(0)

GetProductBody(o) ==
    IF o.ok THEN o ELSE Raise(GetExcept(o.exc))

\* The body of list_products.
ListProductsBodyLenient(o) ==
    IF o.ok THEN o ELSE Ok(0)

ListProductsBody(o) ==
    IF o.ok THEN o ELSE Raise(ListExcept(o.exc))

\* Step 3: on a miss the wrapped handler runs; its failure is propagated.
Call(r) ==
    LET q == req[r]
    IN  /\ q.pc = "call"
        /\ \E o \in (IF q.op = "get" THEN UsecaseGet(db, q.id) ELSE UsecaseQuery(dbVer)) :
              LET out == IF q.op = "get" THEN GetProductBody(o) ELSE ListProductsBody(o)
              IN  req' = [req EXCEPT ![r] =
                            IF out.ok
                            THEN [q EXCEPT !.pc = "store", !.wrapped = out.val,
                                           !.calls = Append(@, UsecaseCall)]
                            ELSE [q EXCEPT !.pc = "done", !.status = out.exc,
                                           !.calls = Append(@, UsecaseCall)]]
        /\ UNCHANGED <<now, db, dbVer, cache, invVer, listInvVer, probe>>

\* Step 4: the result is stored with the configured ttl and returned.
Store(r) ==
    LET q == req[r]
    IN  /\ q.pc = "store"
        /\ cache' = StoreSet(cache, KeyOf(q), q.wrapped, ExpireOf(q), now,
                             q.wrapped < InvalidatedVer(q))
        /\ req' = [req EXCEPT ![r] =
                     [q EXCEPT !.pc = "done", !.status = HTTP_200_OK, !.resp = q.wrapped]]
        /\ UNCHANGED <<now, db, dbVer, invVer, listInvVer, probe>>

(***************************************************************************)
(* The mutating handlers: create_product, update_product, delete_product.  *)
(***************************************************************************)
ExceptOf(op, e) ==
    CASE op = "create" -> CreateExcept(e)
      [] op = "update" -> UpdateExcept(e)
      [] op = "delete" -> DeleteExcept(e)

SuccessStatus(op) ==
    CASE op = "create" -> HTTP_201_CREATED
      [] op = "update" -> HTTP_200_OK
      [] op = "delete" -> HTTP_204_NO_CONTENT

Max(a, b) == IF a >= b THEN a ELSE b

\* The await that follows the use case's return: create_product goes on to
\* "products:list"; update_product and delete_product to f"product:{id}" first.
AfterUsecaseListOnly(op) == "inv_list"
AfterUsecase(op) == IF op = "create" THEN "inv_list" ELSE "inv_key"

\* The handler leaves through one of its except clauses.
FailedThenInvalidate(q, e) == [q EXCEPT !.pc = "inv_list"]

Failed(q, e) == [q EXCEPT !.pc = "done", !.status = ExceptOf(q.op, e)]

\* create_product: result = await usecase.create(body=body)
CreateCall(r) ==
    LET q == req[r]
    IN  /\ q.pc = "uc" /\ q.op = "create"
        /\ \E o \in UsecaseCreate(db, dbVer) :
              IF o.ok
              THEN /\ dbVer' = o.val
                   /\ req' = [req EXCEPT ![r] =
                                [q EXCEPT !.pc = AfterUsecase(q.op), !.wver = o.val,
                                          !.calls = Append(@, UsecaseCall)]]
                   /\ UNCHANGED db
              ELSE /\ req' = [req EXCEPT ![r] =
                                [Failed(q, o.exc) EXCEPT !.calls = Append(@, UsecaseCall)]]
                   /\ UNCHANGED <<db, dbVer>>
        /\ UNCHANGED <<now, cache, invVer, listInvVer, probe>>

\* update_product: the empty-body check, then
\* result = await usecase.update(id=id, body=body)
UpdateCall(r) ==
    LET q == req[r]
    IN  /\ q.pc = "uc" /\ q.op = "update"
        /\ IF q.empty
           THEN /\ req' = [req EXCEPT ![r] = Failed(q, "HTTPException")]
                /\ UNCHANGED <<db, dbVer>>
           ELSE \E o \in UsecaseUpdate(db, dbVer, q.id) :
                   IF o.ok
                   THEN /\ db' = [db EXCEPT ![q.id] = [present |-> TRUE, ver |-> o.val]]
                        /\ dbVer' = o.val
                        /\ req' = [req EXCEPT ![r] =
                                     [q EXCEPT !.pc = AfterUsecase(q.op), !.wver = o.val,
                                               !.calls = Append(@, UsecaseCall)]]
                   ELSE /\ req' = [req EXCEPT ![r] =
                                     [Failed(q, o.exc) EXCEPT
                                         !.calls = Append(@, UsecaseCall)]]
                        /\ UNCHANGED <<db, dbVer>>
        /\ UNCHANGED <<now, cache, invVer, listInvVer, probe>>

\* delete_product: await usecase.delete(id=id)
DeleteCall(r) ==
    LET q == req[r]
    IN  /\ q.pc = "uc" /\ q.op = "delete"
        /\ \E o \in UsecaseDelete(db, dbVer, q.id) :
              IF o.ok
              THEN /\ db' = [db EXCEPT ![q.id] = [present |-> FALSE, ver |-> o.val]]
                   /\ dbVer' = o.val
                   /\ req' = [req EXCEPT ![r] =
                                [q EXCEPT !.pc = AfterUsecase(q.op), !.wver = o.val,
                                          !.calls = Append(@, UsecaseCall)]]
              ELSE /\ req' = [req EXCEPT ![r] =
                                [Failed(q, o.exc) EXCEPT !.calls = Append(@, UsecaseCall)]]
                   /\ UNCHANGED <<db, dbVer>>
        /\ UNCHANGED <<now, cache, invVer, listInvVer, probe>>

\* update_product and delete_product: await invalidate_cache(f"product:{id}")
InvalidateProduct(r) ==
    LET q == req[r]
        pattern == ProductPattern(q.id)
    IN  /\ q.pc = "inv_key"
        /\ \E fault \in BOOLEAN :
              LET res == InvalidateCache(cache, pattern, fault)
              IN  /\ cache' = res.cache
                  /\ invVer' = IF fault THEN invVer
                               ELSE [invVer EXCEPT ![q.id] = Max(@, q.wver)]
                  /\ req' = [req EXCEPT ![r] =
                               IF res.raised
                               THEN [Failed(q, "Exception") EXCEPT
                                        !.cacheFault = @ \/ fault,
                                        !.calls = Append(@, InvalidateCall(pattern))]
                               ELSE [q EXCEPT !.pc = "inv_list",
                                              !.cacheFault = @ \/ fault,
                                              !.calls = Append(@, InvalidateCall(pattern))]]
        /\ UNCHANGED <<now, db, dbVer, listInvVer, probe>>

\* All three: await invalidate_cache("products:list"), then the return.
InvalidateList(r) ==
    LET q == req[r]
    IN  /\ q.pc = "inv_list"
        /\ \E fault \in BOOLEAN :
              LET res == InvalidateCache(cache, ListPattern, fault)
              IN  /\ cache' = res.cache
                  /\ listInvVer' = IF fault THEN listInvVer ELSE Max(listInvVer, q.wver)
                  /\ req' = [req EXCEPT ![r] =
                               IF res.raised
                               THEN [Failed(q, "Exception") EXCEPT
                                        !.cacheFault = @ \/ fault,
                                        !.calls = Append(@, InvalidateCall(ListPattern))]
                               ELSE [q EXCEPT !.pc = "done",
                                              !.status = SuccessStatus(q.op),
                                              !.resp = IF q.op = "delete" THEN -1 ELSE q.wver,
                                              !.cacheFault = @ \/ fault,
                                              !.calls = Append(@, InvalidateCall(ListPattern))]]
        /\ UNCHANGED <<now, db, dbVer, invVer, probe>>

\* The response has been sent; the slot is free for the next request.
Finish(r) ==
    /\ req[r].pc = "done"
    /\ req' = [req EXCEPT ![r] = IdleReq]
    /\ UNCHANGED <<now, db, dbVer, cache, invVer, listInvVer, probe>>

\* Time passes.
Tick ==
    /\ \E d \in TickSteps : now + d <= MaxTime /\ now' = now + d
    /\ UNCHANGED <<db, dbVer, cache, invVer, listInvVer, req, probe>>

Next ==
    \/ \E r \in Reqs : Start(r)
    \/ \E r \in Reqs : Lookup(r)
    \/ \E r \in Reqs : Call(r)
    \/ \E r \in Reqs : Store(r)
    \/ \E r \in Reqs : CreateCall(r)
    \/ \E r \in Reqs : UpdateCall(r)
    \/ \E r \in Reqs : DeleteCall(r)
    \/ \E r \in Reqs : InvalidateProduct(r)
    \/ \E r \in Reqs : InvalidateList(r)
    \/ \E r \in Reqs : Finish(r)
    \/ Tick

Spec == Init /\ [][Next]_vars

(***************************************************************************)
(* The store and the invalidator on their own: the cache starts with any   *)
(* selection of keys, and set, get and invalidate are applied to it.       *)
(***************************************************************************)
StoreKeys ==
    { ProductPattern(CHOOSE i \in ProductIds : TRUE),
      ProductPattern(OtherId),
      compose(GetProductPrefix, GetProductParams(CHOOSE i \in ProductIds : TRUE)),
      compose(ListProductsPrefix, ListProductsParams(None, DefaultPage, DefaultSize)),
      compose(ListProductsPrefix, ListProductsParams(OtherCategory, DefaultPage, DefaultSize)),
      <<"p", "r", "o", "d", "u", "c", "t", "s", ":", "l", "i", "s">> }

StorePatterns ==
    { ProductPattern(CHOOSE i \in ProductIds : TRUE), ProductPattern(OtherId), ListPattern }

StoreTtls == { GetProductExpire, ListProductsExpire }

StoreInit ==
    /\ now = 0
    /\ db = [i \in ProductIds |-> [present |-> TRUE, ver |-> 0]]
    /\ dbVer = 0
    /\ \E ks \in SUBSET StoreKeys, ttl \in StoreTtls :
          cache = [k \in ks |-> Entry(0, ttl, 0, FALSE)]
    /\ invVer = [i \in ProductIds |-> 0]
    /\ listInvVer = 0
    /\ req = [r \in Reqs |-> IdleReq]
    /\ probe = NoProbe

ProbeSet(key, ttl) ==
    /\ probe.n < MaxProbes
    /\ cache' = StoreSet(cache, key, probe.n + 1, ttl, now, FALSE)
    /\ probe' = [n |-> probe.n + 1, op |-> "set", key |-> key, fault |-> FALSE,
                 before |-> cache, res |-> None]
    /\ UNCHANGED <<now, db, dbVer, invVer, listInvVer, req>>

ProbeGet(key) ==
    /\ probe.n < MaxProbes
    /\ probe' = [n |-> probe.n + 1, op |-> "get", key |-> key, fault |-> FALSE,
                 before |-> cache, res |-> StoreGet(cache, key, now)]
    /\ UNCHANGED <<now, db, dbVer, cache, invVer, listInvVer, req>>

ProbeInvalidate(pattern, fault) ==
    /\ probe.n < MaxProbes
    /\ cache' = InvalidateCache(cache, pattern, fault).cache
    /\ probe' = [n |-> probe.n + 1, op |-> "invalidate", key |-> pattern, fault |-> fault,
                 before |-> cache, res |-> None]
    /\ UNCHANGED <<now, db, dbVer, invVer, listInvVer, req>>

StoreNext ==
    \/ \E key \in StoreKeys, ttl \in StoreTtls : ProbeSet(key, ttl)
    \/ \E key \in StoreKeys : ProbeGet(key)
    \/ \E pattern \in StorePatterns, fault \in BOOLEAN : ProbeInvalidate(pattern, fault)
    \/ Tick

StoreSpec == StoreInit /\ [][StoreNext]_vars

(***************************************************************************)
(* Properties.                                                             *)
(***************************************************************************)
Live(c, key, t) == key \in DOMAIN c /\ t < c[key].expires_at

IsInvalidate(call) == call[1] = "invalidate"

Invalidations(q) == SelectSeq(q.calls, IsInvalidate)

\* The calls a mutating handler makes when nothing fails.
FullProtocol(q) ==
    IF q.op = "create"
    THEN <<UsecaseCall, InvalidateCall(ListPattern)>>
    ELSE <<UsecaseCall, InvalidateCall(ProductPattern(q.id)), InvalidateCall(ListPattern)>>

\* The step of request r that leaves pc "from".
Leaves(r, from) == req[r].pc = from /\ req'[r].pc # from

\* C1: cache-aside correctness of get_product and list_products.  A lookup
\* that finds no live entry goes on to invoke the wrapped operation, exactly
\* once, and the handler returns the use case's result, which is stored under
\* the request's key; a lookup that finds a live entry returns the stored
\* value without invoking anything; and an entry, once stored, stays as it is
\* until an invalidation or another store of the same key.
C1_CacheAside ==
    [][\A r \in Reqs :
          LET q   == req[r]
              key == KeyOf(q)
          IN  /\ Leaves(r, "lookup") =>
                    IF Live(cache, key, now)
                    THEN /\ req'[r].pc = "done"
                         /\ req'[r].status = HTTP_200_OK
                         /\ req'[r].calls = << >>
                         /\ req'[r].resp = cache[key].value
                    ELSE /\ req'[r].pc = "call"
                         /\ req'[r].calls = << >>
              /\ Leaves(r, "call") =>
                    /\ req'[r].calls = <<UsecaseCall>>
                    /\ req'[r].pc = "store" =>
                          /\ q.op = "get" => db[q.id].present /\ req'[r].wrapped = db[q.id].ver
                          /\ q.op = "list" => req'[r].wrapped = dbVer
              /\ Leaves(r, "store") =>
                    /\ req'[r].pc = "done"
                    /\ req'[r].status = HTTP_200_OK
                    /\ req'[r].calls = <<UsecaseCall>>
                    /\ req'[r].resp = q.wrapped
                    /\ Live(cache', key, now)
                    /\ cache'[key].value = q.wrapped
              /\ \A k \in DOMAIN cache :
                    (k \notin DOMAIN cache' \/ cache'[k] # cache[k]) =>
                        \E w \in Reqs :
                           \/ Leaves(w, "inv_key") \/ Leaves(w, "inv_list")
                           \/ Leaves(w, "store") /\ KeyOf(req[w]) = k
       ]_vars

\* A second call was answered from the cache: no call was made and the
\* response is the value an earlier call stored.
C1_Witness ==
    \E r \in Reqs :
       /\ req[r].op \in ReadOps /\ req[r].pc = "done"
       /\ req[r].status = HTTP_200_OK /\ req[r].calls = << >>
       /\ KeyOf(req[r]) \in DOMAIN cache
       /\ cache[KeyOf(req[r])].value = req[r].resp

\* C2: effect and frame of an invalidation the store executes.  After
\* invalidate("product:X") a lookup of that key is a miss; after
\* invalidate("products:list") every key that was cached and starts with
\* "products:list" is a miss, and every other entry has the value and the
\* expiry it had.
C2_Invalidation ==
    (probe.op = "invalidate" /\ ~probe.fault) =>
        IF probe.key = ListPattern
        THEN \A k \in DOMAIN probe.before :
                IF IsPrefixOf(ListPattern, k)
                THEN k \notin DOMAIN cache /\ StoreGet(cache, k, now) = None
                ELSE k \in DOMAIN cache /\ cache[k] = probe.before[k]
        ELSE StoreGet(cache, probe.key, now) = None

\* "products:list" was invalidated in a cache that held two list pages, a
\* product entry and a key that is a proper prefix of "products:list".
C2_Witness ==
    /\ probe.op = "invalidate" /\ ~probe.fault /\ probe.key = ListPattern
    /\ Cardinality({k \in DOMAIN probe.before : IsPrefixOf(ListPattern, k)}) >= 2
    /\ Cardinality(DOMAIN cache) >= 2
    /\ \E k \in DOMAIN cache : Len(k) < Len(ListPattern)

\* C3: write isolation.  When the use-case call of a mutating handler fails,
\* the handler's step leaves the cache as it was and the request makes no
\* invalidate_cache call; a request only ever invalidates after its use case
\* committed.
C3_WriteIsolation ==
    /\ [][\A r \in Reqs :
             (req[r].pc = "uc" /\ req'[r].pc = "done") =>
                 /\ cache' = cache
                 /\ Invalidations(req'[r]) = << >>]_vars
    /\ [](\A r \in Reqs : req[r].wver = 0 => Invalidations(req[r]) = << >>)

\* The use case of a mutating request failed while the cache held entries.
C3_Witness ==
    \E r \in Reqs :
       /\ req[r].op \in WriteOps /\ req[r].pc = "done"
       /\ req[r].calls = <<UsecaseCall>>
       /\ req[r].status >= HTTP_400_BAD_REQUEST
       /\ DOMAIN cache # {}

C5_Protocol ==
    \A r \in Reqs :
       req[r].op \in WriteOps =>
           /\ IsPrefixOf(req[r].calls, FullProtocol(req[r]))
           /\ Len(req[r].calls) >= 2 => req[r].wver > 0
           /\ req[r].pc # "done" => req[r].status = 0
           /\ (req[r].pc = "done" /\ req[r].status < HTTP_400_BAD_REQUEST) =>
                  req[r].calls = FullProtocol(req[r])

\* update_product answered 200 after the use case and both invalidations.
C5_Witness ==
    \E r \in Reqs :
       /\ req[r].op = "update" /\ req[r].pc = "done" /\ req[r].status = HTTP_200_OK
       /\ Len(req[r].calls) = 3

\* C6: TTL expiry.  An entry of get_product expires 300 s after it was set,
\* one of list_products 60 s after; a lookup at or after expires_at is a
\* miss, a hit only ever returns an entry that has not expired, and a lookup
\* before expires_at returns the stored value.
C6_TtlExpiry ==
    /\ [](\A k \in DOMAIN cache :
             /\ cache[k].setAt <= now
             /\ cache[k].expires_at =
                   cache[k].setAt + (IF IsPrefixOf(ListPattern, k) THEN 60 ELSE 300))
    /\ [][\A r \in Reqs :
             LET key == KeyOf(req[r])
             IN  Leaves(r, "lookup") =>
                    /\ (key \in DOMAIN cache /\ now >= cache[key].expires_at) =>
                           req'[r].pc = "call"
                    /\ req'[r].pc = "done" =>
                           /\ key \in DOMAIN cache
                           /\ now < cache[key].expires_at
                           /\ req'[r].resp = cache[key].value
                    /\ (key \in DOMAIN cache /\ now < cache[key].expires_at) =>
                           /\ req'[r].pc = "done"
                           /\ req'[r].resp = cache[key].value]_vars

\* A get_product lookup at now = expires_at has missed: the request is about
\* to call the use case although its key is still in the store.
C6_Witness ==
    \E r \in Reqs :
       /\ req[r].op = "get" /\ req[r].pc = "call"
       /\ KeyOf(req[r]) \in DOMAIN cache
       /\ now >= cache[KeyOf(req[r])].expires_at

C8_FailureNotCached ==
    [][\A r \in Reqs :
          LET q == req[r]
          IN  Leaves(r, "call") =>
                 /\ (q.op = "get" /\ ~db[q.id].present) => req'[r].pc = "done"
                 /\ req'[r].pc = "done" =>
                       /\ req'[r].status \in
                             (IF q.op = "get" /\ ~db[q.id].present
                              THEN {HTTP_404_NOT_FOUND, HTTP_500_INTERNAL_SERVER_ERROR}
                              ELSE {HTTP_500_INTERNAL_SERVER_ERROR})
                       /\ req'[r].resp = -1
                       /\ cache' = cache]_vars

\* get_product of a deleted product ended 404 and left nothing in the cache.
C8_Witness ==
    \E r \in Reqs :
       /\ req[r].op = "get" /\ req[r].pc = "done"
       /\ req[r].status = HTTP_404_NOT_FOUND
       /\ req[r].calls = <<UsecaseCall>>
       /\ ~Live(cache, KeyOf(req[r]), now)

\* C9: update_product with a body in which no field is set answers 400,
\* without calling the use case and without invalidating.
C9_EmptyBody400 ==
    \A r \in Reqs :
       (req[r].op = "update" /\ req[r].empty /\ req[r].pc = "done") =>
           /\ req[r].status = HTTP_400_BAD_REQUEST
           /\ req[r].calls = << >>

\* C10: read-your-write.  When update_product or delete_product completes
\* successfully, its invalidations executed, with no other request in flight
\* since it started, the cache holds no live entry for get_product of that id
\* and none for list_products.
C10_ReadYourWrite ==
    [][\A r \in Reqs :
          LET q == req[r]
          IN  (/\ Leaves(r, "inv_list") /\ q.op \in {"update", "delete"}
               /\ req'[r].solo /\ ~req'[r].cacheFault
               /\ req'[r].status < HTTP_400_BAD_REQUEST) =>
                  /\ ~Live(cache', compose(GetProductPrefix, GetProductParams(q.id)), now)
                  /\ \A k \in DOMAIN cache' :
                        IsPrefixOf(ListProductsPrefix, k) => ~Live(cache', k, now)]_vars

====
